---- MODULE Spec2Model ----
(***************************************************************************)
(* Model of the YouTube transcript viewer: serve.py (the state store, the  *)
(* HTTP handler, the deletion routine) and viewer/build.py (the markdown   *)
(* summary parser and the viewer builder).                                 *)
(*                                                                         *)
(* Text is modelled character by character: a Python str is a sequence of  *)
(* one-character strings, so that prefix, suffix, glob and regular         *)
(* expression matching are computed as the code computes them.             *)
(***************************************************************************)
EXTENDS Naturals, Sequences, FiniteSets

(***************************************************************************)
(* Bounds of the model.                                                    *)
(***************************************************************************)
\* number of requests the clients send in one behaviour
MaxRequests == 3

(***************************************************************************)
(* Program constants.                                                      *)
(***************************************************************************)
\* serve.py:127 and :163, len(video_id) != 11; build.py:20, {11}
IdLen == 11

(***************************************************************************)
(* Character data.                                                         *)
(***************************************************************************)
\* the character class [a-zA-Z0-9_-] of build.py's three patterns
IdChars == {"a","b","c","d","e","f","g","h","i","j","k","l","m","n","o","p","q","r","s","t","u","v","w","x","y","z","A","B","C","D","E","F","G","H","I","J","K","L","M","N","O","P","Q","R","S","T","U","V","W","X","Y","Z","0","1","2","3","4","5","6","7","8","9","_","-"}

\* the characters of the model's names in code point order: the order
\* sorted() compares names by
Ascii == <<"&","*","-",".","/","0","1","2","3","4","5","6","7","8","9",":","=","?","A","B","C","D","E","F","G","H","I","J","K","L","M","N","O","P","Q","R","S","T","U","V","W","X","Y","Z","_","a","b","c","d","e","f","g","h","i","j","k","l","m","n","o","p","q","r","s","t","u","v","w","x","y","z">>

\* video IDs the requests and the files use
IdA == <<"a","b","c","d","e","f","g","h","1","2","3">>
IdB == <<"Z","y","x","_","w","v","-","9","8","7","6">>
\* 11 characters, the first a glob metacharacter
GlobId == <<"*","b","c","d","e","f","g","h","1","2","3">>
\* 10 and 12 characters, and the empty last path segment
ShortId == <<"a","b","c","d","e","f","g","h","1","2">>
LongId == <<"a","b","c","d","e","f","g","h","1","2","3","4">>
EmptyId == <<>>

DatePrefix == <<"2","0","2","5","-","0","1","-","0","1">>
\* build.py:66, f"https://www.youtube.com/watch?v={video_id}"
WatchUrlPrefix == <<"h","t","t","p","s",":","/","/","w","w","w",".","y","o","u","t","u","b","e",".","c","o","m","/","w","a","t","c","h","?","v","=">>
HttpScheme == <<"h","t","t","p",":","/","/">>
HttpsScheme == <<"h","t","t","p","s",":","/","/">>
YoutuBe == <<"y","o","u","t","u",".","b","e","/">>

\* values a **URL:** marker of a summary is followed by
UrlShortA == <<"h","t","t","p","s",":","/","/","y","o","u","t","u",".","b","e","/","a","b","c","d","e","f","g","h","1","2","3">>
UrlWatchB == <<"h","t","t","p","s",":","/","/","w","w","w",".","y","o","u","t","u","b","e",".","c","o","m","/","w","a","t","c","h","?","v","=","Z","y","x","_","w","v","-","9","8","7","6">>
UrlAmpA == <<"h","t","t","p","s",":","/","/","w","w","w",".","y","o","u","t","u","b","e",".","c","o","m","/","w","a","t","c","h","?","t","=","1","&","v","=","a","b","c","d","e","f","g","h","1","2","3">>
UrlBothBA == <<"h","t","t","p","s",":","/","/","y","o","u","t","u",".","b","e","/","a","b","c","d","e","f","g","h","1","2","3","?","v","=","Z","y","x","_","w","v","-","9","8","7","6">>
UrlNoId == <<"h","t","t","p","s",":","/","/","v","i","m","e","o",".","c","o","m","/","1","2","3","4","5">>
UrlShortV == <<"h","t","t","p","s",":","/","/","w","w","w",".","y","o","u","t","u","b","e",".","c","o","m","/","w","a","t","c","h","?","v","=","s","h","o","r","t">>
UrlFtp == <<"f","t","p",":","/","/","y","o","u","t","u",".","b","e","/","a","b","c","d","e","f","g","h","1","2","3">>

\* file names without the -{id}.md suffix
NameOther == <<"n","o","t","e","s",".","m","d">>
NameShort == <<"2","0","2","5","-","0","1","-","0","1","-","a","b","c",".","m","d">>

(***************************************************************************)
(* String helpers.                                                         *)
(***************************************************************************)
\* s[i:i+len(lit)] == lit
HasAt(s, i, lit) ==
    /\ i >= 1
    /\ i + Len(lit) - 1 <= Len(s)
    /\ \A k \in 1..Len(lit) : s[i + k - 1] = lit[k]

StartsWith(s, lit) == HasAt(s, 1, lit)

EndsWith(s, lit) == Len(lit) <= Len(s) /\ HasAt(s, Len(s) - Len(lit) + 1, lit)

\* the group ([a-zA-Z0-9_-]{11}) matched at position i of s
IdGroupAt(s, i) ==
    /\ i >= 1
    /\ i + IdLen - 1 <= Len(s)
    /\ \A k \in i..(i + IdLen - 1) : s[k] \in IdChars

\* the least element of a non-empty set of naturals: re.search takes the
\* leftmost match
Least(S) == CHOOSE i \in S : \A j \in S : i <= j

CharIndex(c) == CHOOSE i \in 1..Len(Ascii) : Ascii[i] = c

\* a < b as Python compares str: by code point, a proper prefix first
RECURSIVE StrLess(_, _)
StrLess(a, b) ==
    IF b = <<>> THEN FALSE
    ELSE IF a = <<>> THEN TRUE
    ELSE IF Head(a) = Head(b) THEN StrLess(Tail(a), Tail(b))
    ELSE CharIndex(Head(a)) < CharIndex(Head(b))

(***************************************************************************)
(* viewer/build.py                                                         *)
(***************************************************************************)
\* None, and the falsy empty str
None == <<>>

\* positions where [?&]v=([a-zA-Z0-9_-]{11}) matches
VParamMatches(url) ==
    {i \in 1..Len(url) :
        /\ url[i] \in {"?", "&"}
        /\ HasAt(url, i + 1, <<"v", "=">>)
        /\ IdGroupAt(url, i + 3)}

\* positions where youtu\.be/([a-zA-Z0-9_-]{11}) matches
YoutuBeMatches(url) ==
    {i \in 1..Len(url) :
        /\ HasAt(url, i, YoutuBe)
        /\ IdGroupAt(url, i + Len(YoutuBe))}

\* -([a-zA-Z0-9_-]{11})\.md$ : the group starts IdLen + 3 characters before
\* the end of the name
FilenameMatches(filename) ==
    {i \in 1..Len(filename) :
        /\ filename[i] = "-"
        /\ IdGroupAt(filename, i + 1)
        /\ HasAt(filename, i + 1 + IdLen, <<".", "m", "d">>)
        /\ i + IdLen + 3 = Len(filename)}

\* mutant: the filename is tried before the URL
extract_video_id_filename_first(filename, url) ==
    IF FilenameMatches(filename) # {}
    THEN SubSeq(filename, Least(FilenameMatches(filename)) + 1,
                Least(FilenameMatches(filename)) + IdLen)
    ELSE IF url # None /\ VParamMatches(url) # {}
    THEN SubSeq(url, Least(VParamMatches(url)) + 3,
                Least(VParamMatches(url)) + 2 + IdLen)
    ELSE IF url # None /\ YoutuBeMatches(url) # {}
    THEN SubSeq(url, Least(YoutuBeMatches(url)) + Len(YoutuBe),
                Least(YoutuBeMatches(url)) + Len(YoutuBe) + IdLen - 1)
    ELSE None

extract_video_id(filename, url) ==
    IF url # None /\ VParamMatches(url) # {}
    THEN SubSeq(url, Least(VParamMatches(url)) + 3,
                Least(VParamMatches(url)) + 2 + IdLen)
    ELSE IF url # None /\ YoutuBeMatches(url) # {}
    THEN SubSeq(url, Least(YoutuBeMatches(url)) + Len(YoutuBe),
                Least(YoutuBeMatches(url)) + Len(YoutuBe) + IdLen - 1)
    ELSE IF FilenameMatches(filename) # {}
    THEN SubSeq(filename, Least(FilenameMatches(filename)) + 1,
                Least(FilenameMatches(filename)) + IdLen)
    ELSE None

\* A summary's content is modelled by what parse_summary's URL pattern reads
\* of it: the sequence of the values that follow its **URL:** markers, in
\* order.  \*\*URL:\*\*\s*(https?://[^\s]+) takes the first that is an
\* http or https URL with at least one character after the scheme.
IsHttpUrl(v) ==
    \/ StartsWith(v, HttpScheme) /\ Len(v) > Len(HttpScheme)
    \/ StartsWith(v, HttpsScheme) /\ Len(v) > Len(HttpsScheme)

UrlField(content) ==
    IF \E k \in 1..Len(content) : IsHttpUrl(content[k])
    THEN content[Least({k \in 1..Len(content) : IsHttpUrl(content[k])})]
    ELSE None

\* The summary record, or NoSummary for a file that is skipped.  Of the
\* record's fields the model keeps id and url; title, channel, date,
\* thumbnail and content are computed independently of these two.
NoSummary == [id |-> None, url |-> None]

parse_summary(filename, content) ==
    LET url == UrlField(content)
        video_id == extract_video_id(filename, url)
    IN  IF video_id = None THEN NoSummary
        ELSE [id |-> video_id,
              url |-> IF url = None THEN WatchUrlPrefix \o video_id ELSE url]

(***************************************************************************)
(* The file system: the directories under SKILL_DIR, the files in them,    *)
(* viewer/template.html and index.html.                                    *)
(***************************************************************************)
AllDirs == {"summaries", "metadata", "transcripts", "audio"}

Md == <<"m","d">>
Json == <<"j","s","o","n">>
Txt == <<"t","x","t">>
Srt == <<"s","r","t">>
Mp3 == <<"m","p","3">>

\* <date-prefix>-<video-id>.<ext>
FileName(id, ext) == DatePrefix \o <<"-">> \o id \o <<".">> \o ext

\* a file: its directory, its name and (for a summary) its content
File(dir, name, content) == [dir |-> dir, name |-> name, content |-> content]

\* fnmatch, as pathlib's glob applies it to one name: * matches any run of
\* characters, ? any one character, everything else itself.  (No name or
\* pattern of the model holds a [ of a character class.)
RECURSIVE GlobMatch(_, _)
GlobMatch(pat, name) ==
    IF pat = <<>> THEN name = <<>>
    ELSE IF Head(pat) = "*"
    THEN \/ GlobMatch(Tail(pat), name)
         \/ name # <<>> /\ GlobMatch(pat, Tail(name))
    ELSE IF Head(pat) = "?"
    THEN name # <<>> /\ GlobMatch(Tail(pat), Tail(name))
    ELSE /\ name # <<>>
         /\ Head(name) = Head(pat)
         /\ GlobMatch(Tail(pat), Tail(name))

\* dir_path.glob(pattern), for a directory that exists
GlobDir(fs, dir, pat) == {f \in fs : f.dir = dir /\ GlobMatch(pat, f.name)}

\* the template and the output page: whether the file exists, and its text
\* as a sequence of pieces, each ordinary text, the placeholder
\* /*SUMMARIES_DATA*/[] or an embedded JSON array of summary records
NoDoc == [exists |-> FALSE, text |-> <<>>]
Doc(text) == [exists |-> TRUE, text |-> text]
TextPiece(k) == [k |-> k, v |-> <<>>]
Placeholder == [k |-> "/*SUMMARIES_DATA*/[]", v |-> <<>>]
JsonArray(arr) == [k |-> "json", v |-> arr]

\* template.replace('/*SUMMARIES_DATA*/[]', data_json): every occurrence
Replace(text, data) ==
    [i \in 1..Len(text) |-> IF text[i] = Placeholder THEN JsonArray(data) ELSE text[i]]

\* sorted(..., reverse=True) of a set of files of one directory, by name
RECURSIVE SortedReverse(_)
SortedReverse(S) ==
    IF S = {} THEN <<>>
    ELSE LET m == CHOOSE f \in S : \A g \in S : g = f \/ StrLess(g.name, f.name)
         IN  <<m>> \o SortedReverse(S \ {m})

\* the loop of build.py:110-114: the records of the files that parse
RECURSIVE ParseAll(_)
ParseAll(md_files) ==
    IF md_files = <<>> THEN <<>>
    ELSE LET summary == parse_summary(Head(md_files).name, Head(md_files).content)
         IN  (IF summary = NoSummary THEN <<>> ELSE <<summary>>)
             \o ParseAll(Tail(md_files))

\* mutant: the check of the summaries directory is missing
build_viewer_unchecked(ds, fs, tpl, out) ==
    IF ~tpl.exists THEN [ok |-> FALSE, page |-> out]
    ELSE LET md_files == SortedReverse(GlobDir(fs, "summaries", <<"*", ".", "m", "d">>))
             summaries == ParseAll(md_files)
         IN  [ok |-> TRUE, page |-> Doc(Replace(tpl.text, summaries))]

\* build_viewer: its return value and the output page it leaves
build_viewer(ds, fs, tpl, out) ==
    IF "summaries" \notin ds THEN [ok |-> FALSE, page |-> out]
    ELSE IF ~tpl.exists THEN [ok |-> FALSE, page |-> out]
    ELSE LET md_files == SortedReverse(GlobDir(fs, "summaries", <<"*", ".", "m", "d">>))
             summaries == ParseAll(md_files)
         IN  [ok |-> TRUE, page |-> Doc(Replace(tpl.text, summaries))]

(***************************************************************************)
(* serve.py: the state store.                                              *)
(***************************************************************************)
\* the empty dict
EmptyMap == [x \in {} |-> FALSE]

\* mutant: a new record starts as read
DefaultRecordRead == [read |-> TRUE, starred |-> FALSE, archived |-> FALSE]

\* {'read': False, 'starred': False, 'archived': False}
DefaultRecord == [read |-> FALSE, starred |-> FALSE, archived |-> FALSE]

Keys == {"read", "starred", "archived"}

\* json.dumps and json.loads of a flag
JsonOfBool(b) == IF b THEN "true" ELSE "false"
BoolOfJson(v) == v = "true"

\* state.json: absent, or the JSON text save_state wrote last, an object of
\* objects of true and false.  (The program writes no other content, so the
\* except branch of load_state is not reached from a state it produces.)
NoStateFile == [exists |-> FALSE, text |-> EmptyMap]

load_state(sf) ==
    IF sf.exists
    THEN [id \in DOMAIN sf.text |->
             [key \in DOMAIN sf.text[id] |-> BoolOfJson(sf.text[id][key])]]
    ELSE EmptyMap

save_state(state) ==
    [exists |-> TRUE,
     text |-> [id \in DOMAIN state |->
                  [key \in DOMAIN state[id] |-> JsonOfBool(state[id][key])]]]

\* state[video_id] = record
Put(state, video_id, record) ==
    [x \in DOMAIN state \cup {video_id} |-> IF x = video_id THEN record ELSE state[x]]

\* del state[video_id]
Del(state, video_id) == [x \in DOMAIN state \ {video_id} |-> state[x]]

\* JSON values of a request body, and bool() of each
JsonValues == {"true", "false", "0", "1", "null", "str"}
Truthy(v) == v \in {"true", "1", "str"}

\* mutant: the record is rebuilt from the body alone
MergeBodyOnly(record, updates) ==
    [key \in Keys |-> key \in DOMAIN updates /\ Truthy(updates[key])]

\* the record after the loop of serve.py:147-149
Merge(record, updates) ==
    [key \in Keys |-> IF key \in DOMAIN updates THEN Truthy(updates[key]) ELSE record[key]]

\* serve.py:143-149: the mapping do_PATCH saves
ApplyPatch(state, video_id, updates) ==
    Put(state, video_id,
        Merge(IF video_id \in DOMAIN state THEN state[video_id] ELSE DefaultRecord,
              updates))

(***************************************************************************)
(* serve.py: the requests.                                                 *)
(***************************************************************************)
EmptyObj == [k \in {} |-> "null"]
NoBody == [kind |-> "empty", obj |-> EmptyObj]
Malformed == [kind |-> "malformed", obj |-> EmptyObj]
Object(obj) == [kind |-> "json", obj |-> obj]

StarTrue == Object([k \in {"starred"} |-> "true"])

\* no recognised key
TitleOnly == Object([k \in {"title"} |-> "str"])
ReadArchived == Object([k \in {"read", "archived"} |-> IF k = "read" THEN "str" ELSE "0"])
UnstarArchive ==
    Object([k \in {"starred", "archived", "id"} |->
               IF k = "starred" THEN "false" ELSE IF k = "archived" THEN "1" ELSE "null"])

PatchBodies == {NoBody, Malformed, StarTrue, TitleOnly, ReadArchived, UnstarArchive}

\* json.loads(body) if body else {}
Updates(body) == IF body.kind = "json" THEN body.obj ELSE EmptyObj

\* the last segment of the request path
RequestIds == {IdA, IdB, GlobId, ShortId, LongId, EmptyId}

Request(method, id, body) == [method |-> method, id |-> id, body |-> body]

\* GET /api/state, PATCH /api/state/{id}, DELETE /api/delete/{id}
Requests ==
    {Request("GET", EmptyId, NoBody)}
    \cup {Request("PATCH", IdA, b) : b \in PatchBodies}
    \cup {Request("PATCH", id, StarTrue) : id \in {IdB, GlobId, ShortId, EmptyId}}
    \cup {Request("DELETE", id, NoBody) : id \in RequestIds}

NoRequest == Request("none", EmptyId, NoBody)

\* mutant: only the empty ID is rejected
InvalidIdEmptyOnly(video_id) == video_id = <<>>

\* not video_id or len(video_id) != 11
InvalidId(video_id) == video_id = <<>> \/ Len(video_id) # IdLen

\* mutant: the .srt pair is missing
patternsNoSrt(video_id) ==
    << [dir |-> "summaries", pat |-> <<"*", "-">> \o video_id \o <<".">> \o Md],
       [dir |-> "metadata", pat |-> <<"*", "-">> \o video_id \o <<".">> \o Json],
       [dir |-> "transcripts", pat |-> <<"*", "-">> \o video_id \o <<".">> \o Txt],
       [dir |-> "audio", pat |-> <<"*", "-">> \o video_id \o <<".">> \o Mp3] >>

\* the five (directory, pattern) pairs of delete_transcript
patterns(video_id) ==
    << [dir |-> "summaries", pat |-> <<"*", "-">> \o video_id \o <<".">> \o Md],
       [dir |-> "metadata", pat |-> <<"*", "-">> \o video_id \o <<".">> \o Json],
       [dir |-> "transcripts", pat |-> <<"*", "-">> \o video_id \o <<".">> \o Txt],
       [dir |-> "transcripts", pat |-> <<"*", "-">> \o video_id \o <<".">> \o Srt],
       [dir |-> "audio", pat |-> <<"*", "-">> \o video_id \o <<".">> \o Mp3] >>

\* the content files of the server's runs
FilesA ==
    { File("summaries", FileName(IdA, Md), <<UrlShortA>>),
      File("metadata", FileName(IdA, Json), <<>>),
      File("transcripts", FileName(IdA, Txt), <<>>),
      File("audio", FileName(IdA, Mp3), <<>>) }

FilesB ==
    { File("summaries", FileName(IdB, Md), <<>>),
      File("transcripts", FileName(IdB, Srt), <<>>) }

ServerFiles == FilesA \cup FilesB

\* dir_path.glob(pattern) of every request ID and pair over all the files the
\* server's runs hold, computed once: a glob over the files present is the
\* part of it that is present
GlobAll ==
    [id \in RequestIds |->
        [k \in 1..Len(patterns(id)) |->
            GlobDir(ServerFiles, patterns(id)[k].dir, patterns(id)[k].pat)]]

\* the files the k-th pair of patterns(video_id) yields: none when the
\* directory does not exist (serve.py:80), else dir_path.glob(pattern)
Matching(ds, fs, video_id, k) ==
    IF patterns(video_id)[k].dir \in ds
    THEN GlobAll[video_id][k] \cap fs
    ELSE {}

AllMatching(ds, fs, video_id) ==
    UNION {Matching(ds, fs, video_id, k) : k \in 1..Len(patterns(video_id))}

\* a response: the status and, for GET and a 200 PATCH, the mapping sent
Response(status, state) == [status |-> status, state |-> state]
NoResponse == Response(0, EmptyMap)

(***************************************************************************)
(* State.                                                                  *)
(***************************************************************************)
VARIABLES
    dirs,        \* the content directories that exist under SKILL_DIR
    files,       \* the files in them
    template,    \* viewer/template.html
    page,        \* index.html
    buildScript, \* whether viewer/build.py exists
    stateFile,   \* state.json
    pc,          \* per client connection: where its request stands
    req,         \* per client: the request it sent
    local,       \* per handler: the dict `state` it loaded
    patIdx,      \* per handler: the pair of `patterns` the loop is at
    deleted,     \* per handler: len(deleted_files)
    unlinkFailed, \* per handler: an unlink raised
    resp,        \* per client: the response written
    nreq,        \* requests sent so far
    pre,         \* history: what a handler found when it started
    rebuilds,    \* history: calls of rebuild_viewer
    applied,     \* history: the updates answered 200, applied in order
    starFresh,   \* history: IDs whose last request created them starred
    deletedOk,   \* history: IDs a DELETE was answered 200 for
    waited,      \* history: the request waited while another was handled
    built,       \* the last build_viewer run: its return value, the page before
    parsed       \* the last parse_summary call: its file and its result

fsVars == <<dirs, files, template, page, buildScript>>
handlerVars == <<pc, req, local, patIdx, deleted, unlinkFailed, resp, nreq, pre>>
historyVars == <<rebuilds, applied, starFresh, deletedOk, waited>>
buildVars == <<built, parsed>>
vars == <<fsVars, stateFile, handlerVars, historyVars, buildVars>>

\* the client connections that may have a request outstanding at once
Clients == {"c1", "c2"}

\* the content trees the server is started on: the directories, the files
\* and whether viewer/build.py is there
Installations ==
    { [dirs |-> AllDirs, files |-> ServerFiles, buildScript |-> TRUE],
      [dirs |-> AllDirs \ {"audio"},
       files |-> {f \in ServerFiles : f.dir \in {"summaries", "metadata"}},
       buildScript |-> FALSE],
      [dirs |-> AllDirs, files |-> FilesB, buildScript |-> TRUE],
      [dirs |-> {"transcripts"},
       files |-> {f \in ServerFiles : f.dir = "transcripts"},
       buildScript |-> TRUE] }

ServerTemplate == Doc(<<TextPiece("head"), Placeholder, TextPiece("tail")>>)

Snapshot ==
    [stateFile |-> stateFile, files |-> files, page |-> page,
     rebuilds |-> rebuilds, deletedOk |-> deletedOk]

NoSnapshot ==
    [stateFile |-> NoStateFile, files |-> {}, page |-> NoDoc,
     rebuilds |-> 0, deletedOk |-> {}]

NoParse == [file |-> File("none", <<>>, <<>>), summary |-> NoSummary]

NoBuild == [ran |-> FALSE, ok |-> FALSE, before |-> NoDoc]

HandlersIdle ==
    /\ pc = [c \in Clients |-> "idle"]
    /\ req = [c \in Clients |-> NoRequest]
    /\ local = [c \in Clients |-> EmptyMap]
    /\ patIdx = [c \in Clients |-> 0]
    /\ deleted = [c \in Clients |-> 0]
    /\ unlinkFailed = [c \in Clients |-> FALSE]
    /\ resp = [c \in Clients |-> NoResponse]
    /\ pre = [c \in Clients |-> NoSnapshot]
    /\ nreq = 0
    /\ rebuilds = 0
    /\ applied = EmptyMap
    /\ starFresh = {}
    /\ deletedOk = {}
    /\ waited = [c \in Clients |-> FALSE]

\* the server starts on a content tree the transcription runs left, with no
\* state.json yet
Init ==
    /\ \E inst \in Installations :
           /\ dirs = inst.dirs
           /\ files = inst.files
           /\ buildScript = inst.buildScript
    /\ template = ServerTemplate
    /\ page = NoDoc
    /\ stateFile = NoStateFile
    /\ HandlersIdle
    /\ built = NoBuild
    /\ parsed = NoParse

(***************************************************************************)
(* serve.py: the server and the handlers.                                  *)
(***************************************************************************)
\* a handler that runs: its request accepted, it has not yet returned
InHandler(c) == pc[c] \notin {"idle", "sent"}

\* a handler between its load_state and its save_state
Loaded(c) == pc[c] \in {"patch_loaded", "del_loaded"}

\* mutant: a threading server, which starts a handler per request at once
ServerThreaded == TRUE

\* start_server: http.server.HTTPServer's serve_forever handles a request
\* to its end (the response written, the handler returned) before it accepts
\* the next one
ServerFree == \A d \in Clients : ~InHandler(d)

\* a client sends a request; it waits in the listening socket's queue.
\* (The connections are interchangeable: a request takes c1 when it is free.)
Send(c, r) ==
    /\ pc[c] = "idle"
    /\ c = "c1" \/ pc["c1"] # "idle"
    /\ nreq < MaxRequests
    /\ pc' = [pc EXCEPT ![c] = "sent"]
    /\ req' = [req EXCEPT ![c] = r]
    /\ nreq' = nreq + 1
    /\ waited' = [waited EXCEPT ![c] = \E d \in Clients : Loaded(d)]
    /\ UNCHANGED <<fsVars, stateFile, local, patIdx, deleted,
                   unlinkFailed, resp, pre,
                   rebuilds, applied, starFresh, deletedOk, buildVars>>

\* send_json_response
Respond(c, status, state) ==
    /\ pc' = [pc EXCEPT ![c] = "done"]
    /\ resp' = [resp EXCEPT ![c] = Response(status, state)]

Start(c, method) ==
    /\ pc[c] = "sent"
    /\ req[c].method = method
    /\ ServerFree
    /\ pre' = [pre EXCEPT ![c] = Snapshot]

\* requests that wait while this handler runs
Overtaken(c) == [d \in Clients |-> waited[d] \/ (d # c /\ pc[d] = "sent")]

\* do_GET for /api/state
do_GET(c) ==
    /\ Start(c, "GET")
    /\ Respond(c, 200, load_state(stateFile))
    /\ UNCHANGED <<fsVars, stateFile, req, local, patIdx, deleted,
                   unlinkFailed, nreq,
                   historyVars, buildVars>>

\* do_PATCH up to the loop over the valid keys (serve.py:121-149)
do_PATCH(c) ==
    /\ Start(c, "PATCH")
    /\ IF InvalidId(req[c].id)
       THEN /\ Respond(c, 400, EmptyMap)
            /\ UNCHANGED <<local, starFresh, waited>>
       ELSE IF req[c].body.kind = "malformed"
       THEN /\ Respond(c, 400, EmptyMap)
            /\ starFresh' = starFresh \ {req[c].id}
            /\ UNCHANGED <<local, waited>>
       ELSE /\ pc' = [pc EXCEPT ![c] = "patch_loaded"]
            /\ local' = [local EXCEPT ![c] =
                   ApplyPatch(load_state(stateFile), req[c].id, Updates(req[c].body))]
            /\ waited' = Overtaken(c)
            /\ UNCHANGED <<resp, starFresh>>
    /\ UNCHANGED <<fsVars, stateFile, req, patIdx, deleted, unlinkFailed, nreq,
                   rebuilds, applied, deletedOk, buildVars>>

\* do_PATCH from save_state on (serve.py:151-152)
do_PATCH_save(c) ==
    /\ pc[c] = "patch_loaded"
    /\ stateFile' = save_state(local[c])
    /\ Respond(c, 200, [x \in {req[c].id} |-> local[c][req[c].id]])
    /\ applied' = ApplyPatch(applied, req[c].id, Updates(req[c].body))
    /\ starFresh' =
           IF req[c].id \notin DOMAIN load_state(pre[c].stateFile) /\ req[c].body = StarTrue
           THEN starFresh \cup {req[c].id}
           ELSE starFresh \ {req[c].id}
    /\ UNCHANGED <<fsVars, req, local, patIdx, deleted, unlinkFailed,
                   nreq, pre,
                   rebuilds, deletedOk, waited, buildVars>>

\* do_DELETE up to the call of delete_transcript (serve.py:158-167, 68-76)
do_DELETE(c) ==
    /\ Start(c, "DELETE")
    /\ IF InvalidId(req[c].id)
       THEN /\ Respond(c, 400, EmptyMap)
            /\ UNCHANGED <<patIdx, deleted, starFresh>>
       ELSE /\ pc' = [pc EXCEPT ![c] = "del_scan"]
            /\ patIdx' = [patIdx EXCEPT ![c] = 1]
            /\ deleted' = [deleted EXCEPT ![c] = 0]
            /\ starFresh' = starFresh \ {req[c].id}
            /\ UNCHANGED resp
    /\ UNCHANGED <<fsVars, stateFile, req, local, unlinkFailed, nreq,
                   rebuilds, applied, deletedOk, waited, buildVars>>

\* filepath.unlink() succeeds (serve.py:83-84)
unlink_ok(c, f) ==
    /\ pc[c] = "del_scan"
    /\ f \in Matching(dirs, files, req[c].id, patIdx[c])
    /\ files' = files \ {f}
    /\ deleted' = [deleted EXCEPT ![c] = @ + 1]
    /\ UNCHANGED <<dirs, template, page, buildScript, stateFile, pc, req, local,
                   patIdx, unlinkFailed, resp, nreq, pre, historyVars, buildVars>>

\* filepath.unlink() raises: delete_transcript returns False (serve.py:85-86)
\* and do_DELETE answers 404 (serve.py:171-172)
unlink_fail(c, f) ==
    /\ pc[c] = "del_scan"
    /\ f \in Matching(dirs, files, req[c].id, patIdx[c])
    /\ unlinkFailed' = [unlinkFailed EXCEPT ![c] = TRUE]
    /\ Respond(c, 404, EmptyMap)
    /\ UNCHANGED <<fsVars, stateFile, req, local, patIdx, deleted, nreq, pre,
                   historyVars, buildVars>>

\* the pairs after the k-th whose glob yields a file
LaterPairs(ds, fs, video_id, k) ==
    {j \in (k + 1)..Len(patterns(video_id)) : Matching(ds, fs, video_id, j) # {}}

\* the glob of one pair is exhausted: on to the next pair that yields a file
\* (a pair that yields none is an empty inner loop), or the end of the loop
next_pattern(c) ==
    /\ pc[c] = "del_scan"
    /\ Matching(dirs, files, req[c].id, patIdx[c]) = {}
    /\ IF LaterPairs(dirs, files, req[c].id, patIdx[c]) # {}
       THEN /\ patIdx' = [patIdx EXCEPT ![c] = Least(LaterPairs(dirs, files, req[c].id, @))]
            /\ UNCHANGED pc
       ELSE /\ pc' = [pc EXCEPT ![c] = "del_scanned"]
            /\ UNCHANGED patIdx
    /\ UNCHANGED <<fsVars, stateFile, req, local, deleted, unlinkFailed, resp,
                   nreq, pre,
                   historyVars, buildVars>>

\* mutant: the check for an empty deleted_files is missing
delete_load_unchecked(c) ==
    /\ pc[c] = "del_scanned"
    /\ pc' = [pc EXCEPT ![c] = "del_loaded"]
    /\ local' = [local EXCEPT ![c] = load_state(stateFile)]
    /\ waited' = Overtaken(c)
    /\ UNCHANGED <<fsVars, stateFile, req, patIdx, deleted, unlinkFailed, resp,
                   nreq, pre, rebuilds, applied, starFresh, deletedOk, buildVars>>

\* serve.py:88-92: nothing deleted, or load_state
delete_load(c) ==
    /\ pc[c] = "del_scanned"
    /\ IF deleted[c] = 0
       THEN /\ Respond(c, 404, EmptyMap)
            /\ UNCHANGED <<local, waited>>
       ELSE /\ pc' = [pc EXCEPT ![c] = "del_loaded"]
            /\ local' = [local EXCEPT ![c] = load_state(stateFile)]
            /\ waited' = Overtaken(c)
            /\ UNCHANGED resp
    /\ UNCHANGED <<fsVars, stateFile, req, patIdx, deleted, unlinkFailed,
                   nreq, pre,
                   rebuilds, applied, starFresh, deletedOk, buildVars>>

\* rebuild_viewer: the page build.py leaves, when the script exists
rebuild_viewer ==
    IF buildScript THEN build_viewer(dirs, files, template, page).page ELSE page

\* mutant: the call of rebuild_viewer is missing
delete_save_no_rebuild(c) ==
    /\ pc[c] = "del_loaded"
    /\ stateFile' = IF req[c].id \in DOMAIN local[c]
                    THEN save_state(Del(local[c], req[c].id))
                    ELSE stateFile
    /\ Respond(c, 200, EmptyMap)
    /\ applied' = Del(applied, req[c].id)
    /\ deletedOk' = deletedOk \cup {req[c].id}
    /\ UNCHANGED <<fsVars, req, local, patIdx, deleted, unlinkFailed, nreq, pre,
                   rebuilds, starFresh, waited, buildVars>>

\* serve.py:93-100 and 169-170: save_state, rebuild_viewer, 200
delete_save(c) ==
    /\ pc[c] = "del_loaded"
    /\ stateFile' = IF req[c].id \in DOMAIN local[c]
                    THEN save_state(Del(local[c], req[c].id))
                    ELSE stateFile
    /\ page' = rebuild_viewer
    /\ rebuilds' = rebuilds + 1
    /\ Respond(c, 200, EmptyMap)
    /\ applied' = Del(applied, req[c].id)
    /\ deletedOk' = deletedOk \cup {req[c].id}
    /\ UNCHANGED <<dirs, files, template, buildScript, req, local, patIdx,
                   deleted, unlinkFailed, nreq, pre, starFresh, waited, buildVars>>

\* the handler returns and the connection is closed
Finish(c) ==
    /\ pc[c] = "done"
    /\ pc' = [pc EXCEPT ![c] = "idle"]
    /\ req' = [req EXCEPT ![c] = NoRequest]
    /\ local' = [local EXCEPT ![c] = EmptyMap]
    /\ patIdx' = [patIdx EXCEPT ![c] = 0]
    /\ deleted' = [deleted EXCEPT ![c] = 0]
    /\ unlinkFailed' = [unlinkFailed EXCEPT ![c] = FALSE]
    /\ resp' = [resp EXCEPT ![c] = NoResponse]
    /\ pre' = [pre EXCEPT ![c] = NoSnapshot]
    /\ waited' = [waited EXCEPT ![c] = FALSE]
    /\ UNCHANGED <<fsVars, stateFile, nreq, rebuilds, applied, starFresh,
                   deletedOk, buildVars>>

Next ==
    \/ \E c \in Clients, r \in Requests : Send(c, r)
    \/ \E c \in Clients : do_GET(c)
    \/ \E c \in Clients : do_PATCH(c)
    \/ \E c \in Clients : do_PATCH_save(c)
    \/ \E c \in Clients : do_DELETE(c)
    \/ \E c \in Clients, f \in ServerFiles : unlink_ok(c, f)
    \/ \E c \in Clients, f \in ServerFiles : unlink_fail(c, f)
    \/ \E c \in Clients : next_pattern(c)
    \/ \E c \in Clients : delete_load(c)
    \/ \E c \in Clients : delete_save(c)
    \/ \E c \in Clients : Finish(c)

Spec == Init /\ [][Next]_vars

(***************************************************************************)
(* Properties of the server.  Each reads a handler at the point where its  *)
(* response is written (pc = "done") against what it found when it         *)
(* started (pre).                                                          *)
(***************************************************************************)
Done(c, method) == pc[c] = "done" /\ req[c].method = method

\* the persisted mapping now, and when the handler of c started
Now == load_state(stateFile)
Before(c) == load_state(pre[c].stateFile)

\* the record of an ID in a mapping is the same in another mapping
SameRecord(m1, m2, id) ==
    /\ id \in DOMAIN m1 <=> id \in DOMAIN m2
    /\ id \in DOMAIN m1 => m1[id] = m2[id]

\* the files of a video ID: those named <anything>-{id}.<ext> in the
\* directory of that extension
Extensions ==
    { <<"summaries", Md>>, <<"metadata", Json>>, <<"transcripts", Txt>>,
      <<"transcripts", Srt>>, <<"audio", Mp3>> }

OwnFiles(fs, id) ==
    {f \in fs : \E e \in Extensions :
        /\ f.dir = e[1]
        /\ EndsWith(f.name, <<"-">> \o id \o <<".">> \o e[2])}

\* C1: a PATCH of {"starred": true} to an 11-character ID with no record is
\* answered 200, and a later GET /api/state, with no other request on that ID
\* in between, is answered 200 with a mapping that holds the ID with
\* starred=true, read=false, archived=false.
C1_StarredFresh ==
    \A c \in Clients :
        /\ ( /\ Done(c, "PATCH")
             /\ Len(req[c].id) = IdLen
             /\ req[c].body = StarTrue
             /\ req[c].id \notin DOMAIN Before(c) )
           => resp[c].status = 200
        /\ Done(c, "GET") =>
             /\ resp[c].status = 200
             /\ \A id \in starFresh :
                  /\ id \in DOMAIN resp[c].state
                  /\ resp[c].state[id] =
                         [read |-> FALSE, starred |-> TRUE, archived |-> FALSE]

\* a GET answered after a fresh ID was starred and another ID was changed
C1_Witness ==
    \E c \in Clients :
        /\ Done(c, "GET")
        /\ IdB \in starFresh
        /\ IdA \in DOMAIN resp[c].state
        /\ IdB \in DOMAIN resp[c].state

\* C2: a PATCH changes, of the record of its ID, only the flags its body
\* holds (a flag it does not hold keeps its prior value, or false when the
\* record is created), and changes the record of no other ID.
C2_PatchFrame ==
    \A c \in Clients :
        (Done(c, "PATCH") /\ resp[c].status = 200) =>
            /\ req[c].id \in DOMAIN Now
            /\ \A key \in Keys \ DOMAIN Updates(req[c].body) :
                   Now[req[c].id][key] =
                       IF req[c].id \in DOMAIN Before(c)
                       THEN Before(c)[req[c].id][key]
                       ELSE FALSE
            /\ \A other \in (DOMAIN Now \cup DOMAIN Before(c)) \ {req[c].id} :
                   SameRecord(Now, Before(c), other)

\* a PATCH with no recognised key to an ID whose record had a flag set, with
\* the record of another ID in the store
C2_Witness ==
    \E c \in Clients :
        /\ Done(c, "PATCH")
        /\ resp[c].status = 200
        /\ req[c].body = TitleOnly
        /\ req[c].id \in DOMAIN Before(c)
        /\ Before(c)[req[c].id] # DefaultRecord
        /\ DOMAIN Before(c) # {req[c].id}

\* C3: a PATCH or DELETE whose ID is not exactly 11 characters long is
\* answered 400 and changes nothing: not the state store, not a content
\* file, not the page, and no rebuild is triggered.
C3_InvalidIdRejected ==
    \A c \in Clients :
        ( /\ Done(c, "PATCH") \/ Done(c, "DELETE")
          /\ Len(req[c].id) # IdLen )
        => /\ resp[c].status = 400
           /\ stateFile = pre[c].stateFile
           /\ files = pre[c].files
           /\ page = pre[c].page
           /\ rebuilds = pre[c].rebuilds

\* a DELETE with a 12-character ID answered while the store holds a record
\* and files exist
C3_Witness ==
    \E c \in Clients :
        /\ Done(c, "DELETE")
        /\ req[c].id = LongId
        /\ stateFile.exists
        /\ files # {}

\* C4: a DELETE on an ID that has files, every removal succeeding, removes
\* all of them, removes the ID's entry from the state store and answers 200;
\* a DELETE of an ID an earlier DELETE was answered 200 for answers 404.
C4_DeleteAll ==
    \A c \in Clients :
        /\ ( /\ Done(c, "DELETE")
             /\ Len(req[c].id) = IdLen
             /\ OwnFiles(pre[c].files, req[c].id) # {}
             /\ ~unlinkFailed[c] )
           => /\ OwnFiles(files, req[c].id) = {}
              /\ deleted[c] >= Cardinality(OwnFiles(pre[c].files, req[c].id))
              /\ req[c].id \notin DOMAIN Now
              /\ resp[c].status = 200
        /\ (Done(c, "DELETE") /\ req[c].id \in pre[c].deletedOk)
           => resp[c].status = 404

\* the second DELETE of an ID whose four files in four directories the first
\* removed
C4_Witness ==
    \E c \in Clients :
        /\ Done(c, "DELETE")
        /\ req[c].id = IdA
        /\ IdA \in pre[c].deletedOk
        /\ dirs = AllDirs
        /\ files \cap FilesA = {}

\* C5: a DELETE on an 11-character ID no file matches in any of the five
\* pairs answers 404 and leaves the state store, the ID's own record in it
\* included, the files and the page as they were; no rebuild is triggered.
C5_DeleteNotFound ==
    \A c \in Clients :
        ( /\ Done(c, "DELETE")
          /\ Len(req[c].id) = IdLen
          /\ AllMatching(dirs, pre[c].files, req[c].id) = {} )
        => /\ resp[c].status = 404
           /\ stateFile = pre[c].stateFile
           /\ files = pre[c].files
           /\ page = pre[c].page
           /\ rebuilds = pre[c].rebuilds

\* such a DELETE on an ID an earlier PATCH created the record of
C5_Witness ==
    \E c \in Clients :
        /\ Done(c, "DELETE")
        /\ Len(req[c].id) = IdLen
        /\ AllMatching(dirs, pre[c].files, req[c].id) = {}
        /\ req[c].id \in DOMAIN Before(c)

\* C8, as claimed: after any DELETE in which at least one file was removed,
\* the state store holds no entry for the ID and a rebuild has been triggered
\* before the response, also when a later removal of the request failed.
\* (Stated for the IDs that are video IDs, so that what refutes it is a
\* DELETE of a video's own files.)
C8_AnyRemovalCleansUp ==
    \A c \in Clients :
        ( /\ Done(c, "DELETE")
          /\ deleted[c] >= 1
          /\ \A k \in 1..Len(req[c].id) : req[c].id[k] \in IdChars ) =>
            /\ req[c].id \notin DOMAIN Now
            /\ rebuilds = pre[c].rebuilds + 1

\* C8, amended: after a DELETE in which at least one file was removed and no
\* removal failed, the answer is 200, the state store holds no entry for the
\* ID and one rebuild has been triggered before the response; when a removal
\* fails the answer is 404, the files removed before it stay removed, and the
\* state store and the page are left as they were, with no rebuild.
C8_CleanUpOnSuccess ==
    \A c \in Clients :
        /\ (Done(c, "DELETE") /\ deleted[c] >= 1 /\ ~unlinkFailed[c])
           => /\ resp[c].status = 200
              /\ req[c].id \notin DOMAIN Now
              /\ rebuilds = pre[c].rebuilds + 1
        /\ (Done(c, "DELETE") /\ unlinkFailed[c])
           => /\ resp[c].status = 404
              /\ files \subseteq pre[c].files
              /\ Cardinality(pre[c].files \ files) = deleted[c]
              /\ stateFile = pre[c].stateFile
              /\ page = pre[c].page
              /\ rebuilds = pre[c].rebuilds

\* a DELETE that removed a file, then failed on another, of an ID with a
\* record in the store
C8_Witness ==
    \E c \in Clients :
        /\ Done(c, "DELETE")
        /\ unlinkFailed[c]
        /\ deleted[c] >= 1
        /\ req[c].id \in DOMAIN Now

\* C9: an accepted DELETE of an 11-character ID X removes files of X only:
\* the files of every other video ID Y still exist afterwards and the state
\* record of Y is unchanged.
C9_OnlyOwnFiles ==
    \A c \in Clients :
        (Done(c, "DELETE") /\ Len(req[c].id) = IdLen) =>
            \A Y \in {IdA, IdB} \ {req[c].id} :
                /\ OwnFiles(pre[c].files, Y) \subseteq files
                /\ SameRecord(Now, Before(c), Y)

\* C10, as claimed: the handlers of two requests can interleave their
\* load_state and save_state steps, that is, while one handler is between
\* its load_state and its save_state the server can start to handle a
\* request that waits.
C10_CanInterleave ==
    \A c, d \in Clients :
        (Loaded(c) /\ pc[d] = "sent") =>
            ENABLED (do_GET(d) \/ do_PATCH(d) \/ do_DELETE(d))

\* C10, amended: the state file is not locked, but the server handles one
\* request at a time, so no handler starts while another runs, and the
\* persisted mapping is always the one the updates answered 200 give when
\* applied in the order of their responses: no update is lost.
C10_NoLostUpdate ==
    /\ \A c, d \in Clients : (InHandler(c) /\ InHandler(d)) => c = d
    /\ Now = applied

\* a PATCH answered 200 whose request waited while the handler of a request
\* to another ID was between load_state and save_state, with the records of
\* both IDs persisted
C10_Witness ==
    \E c \in Clients :
        /\ Done(c, "PATCH")
        /\ resp[c].status = 200
        /\ waited[c]
        /\ req[c].id = IdB
        /\ {IdA, IdB} \subseteq DOMAIN Now

(***************************************************************************)
(* viewer/build.py run on its own: python viewer/build.py.                 *)
(***************************************************************************)
\* the summaries a build may find: per name, the contents it may have
SummaryChoices ==
    << {File("summaries", FileName(IdA, Md), ct) :
            ct \in {<<>>, <<UrlWatchB>>, <<UrlNoId>>, <<UrlFtp>>}},
       {File("summaries", NameOther, ct) :
            ct \in {<<>>, <<UrlShortA>>, <<UrlFtp, UrlAmpA>>, <<UrlBothBA>>, <<UrlShortV>>}},
       {File("summaries", NameShort, ct) : ct \in {<<>>, <<UrlShortV>>}},
       {File("summaries", FileName(IdA, Txt), <<>>)} >>

\* the trees with at most one file of each name
SummaryTrees ==
    {fs \in SUBSET (UNION {SummaryChoices[k] : k \in 1..Len(SummaryChoices)}) :
        \A k \in 1..Len(SummaryChoices) : Cardinality(fs \cap SummaryChoices[k]) <= 1}

Templates ==
    { NoDoc, ServerTemplate,
      Doc(<<TextPiece("head"), TextPiece("tail")>>),
      Doc(<<Placeholder, TextPiece("middle"), Placeholder>>) }

InitBuild ==
    /\ dirs \in {AllDirs, {"summaries"}, AllDirs \ {"summaries"}}
    /\ files \in IF "summaries" \in dirs THEN SummaryTrees ELSE {{}}
    /\ template \in Templates
    /\ page \in {NoDoc, Doc(<<TextPiece("old page")>>)}
    /\ buildScript = TRUE
    /\ stateFile = NoStateFile
    /\ HandlersIdle
    /\ built = NoBuild
    /\ parsed = NoParse

\* python viewer/build.py
RunBuild ==
    /\ ~built.ran
    /\ built' = [ran |-> TRUE,
                 ok |-> build_viewer(dirs, files, template, page).ok,
                 before |-> page]
    /\ page' = build_viewer(dirs, files, template, page).page
    /\ UNCHANGED <<dirs, files, template, buildScript, stateFile, handlerVars,
                   historyVars, parsed>>

\* parse_summary(filepath) of one file of the summaries directory
ParseFile(f) ==
    /\ f \in files
    /\ f.dir = "summaries"
    /\ parsed' = [file |-> f, summary |-> parse_summary(f.name, f.content)]
    /\ UNCHANGED <<fsVars, stateFile, handlerVars, historyVars, built>>

NextBuild ==
    \/ RunBuild
    \/ \E f \in files : ParseFile(f)

SpecBuild == InitBuild /\ [][NextBuild]_vars

\* C6: build_viewer with an existing, empty summaries directory and an
\* existing template returns success and writes the template with every
\* placeholder replaced by an empty JSON array; with the summaries directory
\* or the template missing it returns failure and leaves the output page as
\* it was.
C6_BuildEmptyOrMissing ==
    built.ran =>
        /\ ("summaries" \notin dirs \/ ~template.exists)
           => (~built.ok /\ page = built.before)
        /\ ("summaries" \in dirs /\ template.exists /\ files = {})
           => /\ built.ok
              /\ page.exists
              /\ Len(page.text) = Len(template.text)
              /\ \A i \in 1..Len(template.text) :
                     page.text[i] =
                         IF template.text[i] = Placeholder
                         THEN JsonArray(<<>>)
                         ELSE template.text[i]

\* a build of an empty summaries directory over an older page, with a
\* template that holds the placeholder
C6_Witness ==
    /\ built.ran
    /\ "summaries" \in dirs
    /\ files = {}
    /\ template = ServerTemplate
    /\ built.before.exists
    /\ page # built.before

\* the IDs a URL carries: after ?v= or &v=, or after youtu.be/
IdsInUrl(url) ==
    {SubSeq(url, i + 3, i + 2 + IdLen) : i \in VParamMatches(url)}
    \cup {SubSeq(url, i + Len(YoutuBe), i + Len(YoutuBe) + IdLen - 1) :
              i \in YoutuBeMatches(url)}

\* the name ends in -{11-char-id}.md
HasIdSuffix(name) ==
    /\ Len(name) >= IdLen + 4
    /\ name[Len(name) - IdLen - 3] = "-"
    /\ \A k \in (Len(name) - IdLen - 2)..(Len(name) - 3) : name[k] \in IdChars
    /\ EndsWith(name, <<".", "m", "d">>)

\* C7: parse_summary takes the video ID from the URL field whenever that URL
\* carries an 11-character ID, whatever the filename; with no URL field and a
\* name that ends in -{11-char-id}.md the ID is the one of the name and the
\* url is the canonical watch URL of that ID; when neither yields an ID no
\* record is produced.
C7_IdSource ==
    parsed # NoParse =>
        LET name == parsed.file.name
            url == UrlField(parsed.file.content)
            idOfName == SubSeq(name, Len(name) - IdLen - 2, Len(name) - 3)
        IN  /\ IdsInUrl(url) # {}
               => /\ parsed.summary.id \in IdsInUrl(url)
                  /\ parsed.summary.url = url
            /\ (url = None /\ HasIdSuffix(name))
               => /\ parsed.summary.id = idOfName
                  /\ parsed.summary.url = WatchUrlPrefix \o idOfName
            /\ (IdsInUrl(url) = {} /\ ~HasIdSuffix(name))
               => parsed.summary = NoSummary

\* a file whose name ends in the ID of one video and whose URL field carries
\* the ID of another
C7_Witness ==
    /\ parsed.file.name = FileName(IdA, Md)
    /\ parsed.file.content = <<UrlWatchB>>
    /\ parsed.summary.id = IdB

====
